---------------------------- MODULE Spec2Model ----------------------------
(***************************************************************************)
(* Palette-compressed voxel storage of Vinox                               *)
(* (vinox-common/src/world/chunks/storage.rs): BitBuffer, MultiStorage,    *)
(* Storage and ChunkData, modelled operation by operation.                 *)
(*                                                                         *)
(* Rust vectors are 0-indexed, TLA+ sequences 1-indexed: palette index k   *)
(* of the source is palette[k + 1] here.  Slot and bit positions are kept  *)
(* 0-based.  usize reference counts are kept as integers: the only         *)
(* arithmetic on them is +1 / -1, so a negative number stands for a        *)
(* wrapped-around count (release build) and is what a debug build would    *)
(* abort on.                                                               *)
(***************************************************************************)
EXTENDS Integers, Sequences, FiniteSets, TLC

----------------------------------------------------------------------------
(* Bounds of the model *)

\* Storage::new(size) is driven directly with every size in 1 .. Size
Size == 3
\* number of distinct BlockData values written in Spec
NumBlocks == 3
\* SpecGrow: storages of 1 .. GrowSize voxels, GrowBlocks values, at most
\* MaxOps calls of Storage::set (a palette of capacity 4 grows when a fifth
\* value arrives while four are alive, which takes five voxels)
GrowSize == 5
GrowBlocks == 5
MaxOps == 5
\* SpecChunk, SpecRaw: ChunkData::set is called at the first NumCoords
\* coordinates of ChunkCoords with ChunkBlocks values; SpecRaw stops after
\* MaxChunkOps calls
NumCoords == 3
ChunkBlocks == 2
MaxChunkOps == 4
\* SpecManager: get_chunk_positions under view radii up to MaxHorizontal and
\* MaxVertical (and the radius the client runs with), around the centers
\* within MaxCenter chunks of the origin on every axis
MaxHorizontal == 2
MaxVertical == 1
MaxCenter == 1
\* SpecCalls: at most MaxCalls calls of ChunkData methods on one chunk
MaxCalls == 4

\* SpecBits: buffers of up to MaxBits bits, written and read in ranges of 1 to
\* MaxBitLength bits
MaxBits == 6
MaxBitLength == 3

\* SpecEvict: chunk positions up to MaxDistance chunks from the origin along
\* x, at most MaxLoaded chunk entities at a time
MaxDistance == 3
MaxLoaded == 2

----------------------------------------------------------------------------
(* BlockData *)

BlockNames == <<"air", "dirt", "stone", "grass", "sand", "cobblestone", "glass", "water">>

BlockDataNew(namespace, name) == [namespace |-> namespace, name |-> name]

BlockDataDefault == BlockDataNew("vinox", "air")

BlockSet(n) == {BlockDataNew("vinox", BlockNames[k]) : k \in 1..n}

----------------------------------------------------------------------------
(* BitBuffer: BitVec<u8, Lsb0> with store_le / load_le *)

Pow2(n) == 2 ^ n

\* a BitVec as its length and the set of the (0-based) positions holding a 1
BitBufferNew(size) == [len |-> size, ones |-> {}]

\* mutant: every bit of `bits` is stored, past the end of the range too
BitBufferSetSpills(bytes, idx, bit_length, bits) ==
    [bytes EXCEPT !.ones =
        {p \in @ : p < idx \/ p >= idx + bit_length} \cup
        {idx + j : j \in {b \in 0..bit_length : (bits \div Pow2(b)) % 2 = 1}}]

\* store_le: bit j of `bits` goes to position idx + j, wider bits are dropped
BitBufferSet(bytes, idx, bit_length, bits) ==
    [bytes EXCEPT !.ones =
        {p \in @ : p < idx \/ p >= idx + bit_length} \cup
        {idx + j : j \in {b \in 0..(bit_length - 1) : (bits \div Pow2(b)) % 2 = 1}}]

\* load_le: the little-endian unsigned integer of bit_length bits from idx
RECURSIVE LoadLe(_, _, _)
LoadLe(bytes, idx, bit_length) ==
    IF bit_length = 0 THEN 0
    ELSE (IF idx \in bytes.ones THEN 1 ELSE 0) + 2 * LoadLe(bytes, idx + 1, bit_length - 1)

\* mutant: the range is read most significant bit first
BitBufferGetMsbFirst(bytes, idx, bit_length) ==
    CHOOSE n \in 0..(Pow2(bit_length) - 1) :
        \A j \in 0..(bit_length - 1) :
            (n \div Pow2(bit_length - 1 - j)) % 2 = 1 <=> (idx + j) \in bytes.ones

BitBufferGet(bytes, idx, bit_length) == LoadLe(bytes, idx, bit_length)

----------------------------------------------------------------------------
(* MultiStorage *)

PaletteEntry(voxel_type, ref_count) == [voxel_type |-> voxel_type, ref_count |-> ref_count]

InitialIndicesLength == 2

\* mutant: the seeded entry counts one voxel instead of all of them
MultiStorageNewOneRef(size, initial_voxel) ==
    [kind |-> "Multi",
     size |-> size,
     data |-> BitBufferNew(size * InitialIndicesLength),
     palette |-> <<PaletteEntry(initial_voxel, 1)>>,
     palette_capacity |-> Pow2(InitialIndicesLength),
     indices_length |-> InitialIndicesLength]

\* mutant: the palette starts with 1-bit indices
MultiStorageNewOneBit(size, initial_voxel) ==
    [kind |-> "Multi",
     size |-> size,
     data |-> BitBufferNew(size),
     palette |-> <<PaletteEntry(initial_voxel, size)>>,
     palette_capacity |-> 2,
     indices_length |-> 1]

MultiStorageNew(size, initial_voxel) ==
    [kind |-> "Multi",
     size |-> size,
     data |-> BitBufferNew(size * InitialIndicesLength),
     palette |-> <<PaletteEntry(initial_voxel, size)>>,
     palette_capacity |-> Pow2(InitialIndicesLength),
     indices_length |-> InitialIndicesLength]

\* the re-encoding loop of grow_palette: slots i .. size-1 written into data
RECURSIVE ReEncode(_, _, _, _, _)
ReEncode(data, indices, indices_length, i, size) ==
    IF i >= size THEN data
    ELSE ReEncode(BitBufferSet(data, i * indices_length, indices_length, indices[i + 1]),
                  indices, indices_length, i + 1, size)

\* mutant: the wider buffer is allocated but the old indices are not copied
GrowPaletteNoReencode(storage) ==
    [storage EXCEPT
        !.indices_length = storage.indices_length * 2,
        !.palette_capacity = Pow2(storage.indices_length * 2),
        !.data = BitBufferNew(storage.size * storage.indices_length * 2)]

\* mutant: the indices are copied to their old bit offsets
GrowPaletteOldOffsets(storage) ==
    [storage EXCEPT
        !.indices_length = storage.indices_length * 2,
        !.palette_capacity = Pow2(storage.indices_length * 2),
        !.data = [len |-> storage.size * storage.indices_length * 2,
                  ones |-> storage.data.ones]]

\* mutant: the palette does not grow
GrowPaletteSkipped(storage) == storage

\* mutant: the indices get one more bit, which doubles the capacity
GrowPaletteOneMoreBit(storage) ==
    LET indices == [i \in 1..storage.size |->
                        BitBufferGet(storage.data, (i - 1) * storage.indices_length,
                                     storage.indices_length)]
        new_length == storage.indices_length + 1
    IN  [storage EXCEPT
            !.indices_length = new_length,
            !.palette_capacity = Pow2(new_length),
            !.data = ReEncode(BitBufferNew(storage.size * new_length), indices,
                              new_length, 0, storage.size)]

GrowPalette(storage) ==
    LET indices == [i \in 1..storage.size |->
                        BitBufferGet(storage.data, (i - 1) * storage.indices_length,
                                     storage.indices_length)]
        new_length == storage.indices_length * 2
        new_capacity == Pow2(new_length)
    IN  [storage EXCEPT
            !.indices_length = new_length,
            !.palette_capacity = new_capacity,
            !.data = ReEncode(BitBufferNew(storage.size * new_length), indices,
                              new_length, 0, storage.size)]

----------------------------------------------------------------------------
(* Storage *)

\* mutant: a new storage starts out paletted
StorageNewPaletted(size) ==
    [kind |-> "Multi",
     size |-> size,
     data |-> BitBufferNew(size * InitialIndicesLength),
     palette |-> <<PaletteEntry(BlockDataDefault, size)>>,
     palette_capacity |-> Pow2(InitialIndicesLength),
     indices_length |-> InitialIndicesLength]

StorageNew(size) == [kind |-> "Single", size |-> size, voxel |-> BlockDataDefault]

\* the storage left behind when assert!(storage.palette.len() == 1) fails
AssertFailed == [kind |-> "Panicked"]

ToggleStorageType(storage) ==
    IF storage.kind = "Single"
    THEN MultiStorageNew(storage.size, storage.voxel)
    ELSE IF Len(storage.palette) = 1
         THEN [kind |-> "Single", size |-> storage.size,
               voxel |-> storage.palette[1].voxel_type]
         ELSE AssertFailed

\* Iterator::find / find_map over the palette: the lowest 0-based index among
\* the (1-based) positions `hits`, or -1 for None
FirstIndex(hits) ==
    IF hits = {} THEN -1
    ELSE (CHOOSE k \in hits : \A j \in hits : k <= j) - 1

\* the decoded palette index of a slot
SlotIndex(storage, idx) ==
    BitBufferGet(storage.data, idx * storage.indices_length, storage.indices_length)

\* mutant: the old occupant keeps its reference
KeepTargetRef(palette, palette_target_idx) == palette

\* mutant: an entry released at the end of the palette is removed from it
DecrementTargetPopsLast(palette, palette_target_idx) ==
    IF palette_target_idx < Len(palette)
    THEN IF palette_target_idx + 1 = Len(palette) /\ palette[Len(palette)].ref_count = 1
              /\ Len(palette) > 1
         THEN SubSeq(palette, 1, Len(palette) - 1)
         ELSE [palette EXCEPT ![palette_target_idx + 1].ref_count = @ - 1]
    ELSE palette

\* if let Some(target) = palette.get_mut(palette_target_idx) { target.ref_count -= 1 }
DecrementTarget(palette, palette_target_idx) ==
    IF palette_target_idx < Len(palette)
    THEN [palette EXCEPT ![palette_target_idx + 1].ref_count = @ - 1]
    ELSE palette

\* mutant: only entries still referenced are matched
FindLiveVoxel(palette, voxel) ==
    FirstIndex({k \in 1..Len(palette) :
                    palette[k].voxel_type = voxel /\ palette[k].ref_count # 0})

\* palette.iter().enumerate().find_map(|(idx, entry)| entry.voxel_type == voxel)
FindVoxel(palette, voxel) ==
    FirstIndex({k \in 1..Len(palette) : palette[k].voxel_type = voxel})

\* mutant: no entry is ever found free, every new value is appended
FindUnusedNever(palette) == -1

\* palette.iter_mut().enumerate().find(|(_i, entry)| entry.ref_count == 0)
FindUnused(palette) ==
    FirstIndex({k \in 1..Len(palette) : palette[k].ref_count = 0})

\* the Storage::Multi arm of Storage::set
MultiSet(storage, target_idx, voxel) ==
    LET offset == target_idx * storage.indices_length
        palette_target_idx == SlotIndex(storage, target_idx)
        dec == DecrementTarget(storage.palette, palette_target_idx)
        palette_entry_voxel == FindVoxel(dec, voxel)
        recycled == FindUnused(dec)
    IN  IF palette_entry_voxel >= 0
        THEN \* voxel type already in palette
             [storage EXCEPT
                !.data = BitBufferSet(storage.data, offset, storage.indices_length,
                                      palette_entry_voxel),
                !.palette = [dec EXCEPT ![palette_entry_voxel + 1].ref_count = @ + 1]]
        ELSE IF palette_target_idx < Len(dec) /\ dec[palette_target_idx + 1].ref_count = 0
        THEN \* overwrite target palette entry
             [storage EXCEPT
                !.palette = [dec EXCEPT ![palette_target_idx + 1] = PaletteEntry(voxel, 1)]]
        ELSE IF recycled >= 0
        THEN \* recycle a ref_count 0 entry
             [storage EXCEPT
                !.palette = [dec EXCEPT ![recycled + 1] = PaletteEntry(voxel, 1)],
                !.data = BitBufferSet(storage.data, offset, storage.indices_length, recycled)]
        ELSE \* create a new entry from scratch
             LET decremented == [storage EXCEPT !.palette = dec]
                 grown == IF Len(dec) = storage.palette_capacity
                          THEN GrowPalette(decremented)
                          ELSE decremented
                 pushed == Append(grown.palette, PaletteEntry(voxel, 1))
             IN  [grown EXCEPT
                    !.palette = pushed,
                    !.data = BitBufferSet(grown.data, target_idx * grown.indices_length,
                                          grown.indices_length, Len(pushed) - 1)]

\* mutant: the promoted storage is left as it is, the write is not retried
StorageSetNoRetry(storage, target_idx, voxel) ==
    IF storage.kind = "Single"
    THEN IF storage.voxel # voxel
         THEN MultiStorageNew(storage.size, storage.voxel)
         ELSE storage
    ELSE MultiSet(storage, target_idx, voxel)

\* mutant: a set that leaves one live palette entry demotes the storage
StorageSetDemotes(storage, target_idx, voxel) ==
    LET after == IF storage.kind = "Single"
                 THEN IF storage.voxel # voxel
                      THEN MultiSet(ToggleStorageType(storage), target_idx, voxel)
                      ELSE storage
                 ELSE MultiSet(storage, target_idx, voxel)
        live == {k \in 1..Len(after.palette) : after.palette[k].ref_count # 0}
    IN  IF after.kind = "Multi" /\ Cardinality(live) = 1
        THEN [kind |-> "Single", size |-> after.size,
              voxel |-> after.palette[CHOOSE k \in live : TRUE].voxel_type]
        ELSE after

\* mutant: a uniform storage is promoted by any write
StorageSetPromotesAlways(storage, target_idx, voxel) ==
    IF storage.kind = "Single"
    THEN MultiSet(ToggleStorageType(storage), target_idx, voxel)
    ELSE MultiSet(storage, target_idx, voxel)

StorageSet(storage, target_idx, voxel) ==
    IF storage.kind = "Single"
    THEN IF storage.voxel # voxel
         THEN MultiSet(ToggleStorageType(storage), target_idx, voxel)
         ELSE storage
    ELSE MultiSet(storage, target_idx, voxel)

\* the outcome of .expect("Failed to get palette entry in voxel get") on None
PaletteMiss == [panic |-> "Failed to get palette entry in voxel get"]

StorageGet(storage, idx) ==
    IF storage.kind = "Single"
    THEN storage.voxel
    ELSE IF SlotIndex(storage, idx) < Len(storage.palette)
         THEN storage.palette[SlotIndex(storage, idx) + 1].voxel_type
         ELSE PaletteMiss

\* mutant: trim demotes every paletted storage to its first palette entry
StorageTrimFirstEntry(storage) ==
    IF storage.kind = "Multi"
    THEN [kind |-> "Single", size |-> storage.size,
          voxel |-> storage.palette[1].voxel_type]
    ELSE storage

StorageTrim(storage) ==
    IF storage.kind = "Multi" /\ Len(storage.palette) = 1
    THEN ToggleStorageType(storage)
    ELSE storage

\* The calls one call of a Storage method makes, itself first, in the order
\* they are entered (BitBuffer and Vec calls left out).

\* the Storage::Multi arm of set: grow_palette is called on the way to a
\* push onto a palette of palette_capacity entries
MultiSetCalls(storage, target_idx, voxel) ==
    LET dec == DecrementTarget(storage.palette, SlotIndex(storage, target_idx))
        palette_target_idx == SlotIndex(storage, target_idx)
    IN  IF FindVoxel(dec, voxel) >= 0
        THEN <<>>
        ELSE IF palette_target_idx < Len(dec) /\ dec[palette_target_idx + 1].ref_count = 0
        THEN <<>>
        ELSE IF FindUnused(dec) >= 0
        THEN <<>>
        ELSE IF Len(dec) = storage.palette_capacity
        THEN <<"grow_palette">>
        ELSE <<>>

\* Storage::set: the Single arm toggles and calls set again
RECURSIVE SetCalls(_, _, _)
SetCalls(storage, target_idx, voxel) ==
    IF storage.kind = "Single"
    THEN IF storage.voxel # voxel
         THEN <<"set", "toggle_storage_type">>
                \o SetCalls(ToggleStorageType(storage), target_idx, voxel)
         ELSE <<"set">>
    ELSE <<"set">> \o MultiSetCalls(storage, target_idx, voxel)

\* Storage::get calls nothing
GetCalls(storage, idx) == <<"get">>

\* Storage::trim
TrimCalls(storage) ==
    IF storage.kind = "Multi" /\ Len(storage.palette) = 1
    THEN <<"trim", "toggle_storage_type">>
    ELSE <<"trim">>

----------------------------------------------------------------------------
(* State *)

VARIABLES
    voxels,         \* ChunkData.voxels : Storage
    change_count,   \* ChunkData.change_count : u16
    dirty,          \* ChunkData.dirty
    written,        \* history: slot -> the value last passed to set for it
    ops,            \* history: number of Storage::set calls (SpecGrow)
    block_table,    \* BlockTable: identifier -> BlockDescriptor
    view_radius,    \* ViewRadius resource
    chunk_pos,      \* the chunk_pos last passed to get_chunk_positions
    chunks,         \* the Vec get_chunk_positions returned for it
    pc,             \* "idle", or "listed" once chunks holds a result; in SpecEvict
                    \* "changed" while PlayerChunk is changed for clear_unloaded_chunks
    calls,          \* history: the ChunkData calls made (SpecCalls, SpecShape);
                    \* in SpecBits the latest BitBuffer call
    bytes,          \* BitBuffer.bytes of a buffer on its own (SpecBits)
    player_chunk,   \* PlayerChunk.chunk_pos
    chunk_entities  \* the entities holding a ChunkComp: position and RemoveChunk tag

vars ==
    <<voxels, change_count, dirty, written, ops,
      block_table, view_radius, chunk_pos, chunks, pc, calls,
      bytes, player_chunk, chunk_entities>>

\* the variables of one ChunkData and its history
chunkVars == <<voxels, change_count, dirty, written, ops>>

\* the variables around it
outside ==
    <<block_table, view_radius, chunk_pos, chunks, pc, calls,
      bytes, player_chunk, chunk_entities>>

\* ChunkData::default() around Storage::new(size); `slots` are the indices
\* the specification writes to
ChunkDataDefault(size, slots) ==
    /\ voxels = StorageNew(size)
    /\ change_count = 0
    /\ dirty = TRUE
    /\ written = [i \in slots |-> BlockDataDefault]
    /\ ops = 0

\* horizontal and vertical of the ViewRadius the ChunkPlugin inserts
ViewHorizontal == 10
ViewVertical == 4

\* the resources as ChunkPlugin::build inserts them: BlockTable::default(),
\* the ViewRadius, PlayerChunk::default(), CurrentChunks::default() with no
\* chunk entity, and no position list; no call made, no buffer of its own
OutsideDefault ==
    /\ block_table = <<>>
    /\ view_radius = [horizontal |-> ViewHorizontal, vertical |-> ViewVertical]
    /\ chunk_pos = <<0, 0, 0>>
    /\ chunks = <<>>
    /\ pc = "idle"
    /\ calls = <<>>
    /\ bytes = BitBufferNew(0)
    /\ player_chunk = <<0, 0, 0>>
    /\ chunk_entities = {}

\* the value an array of BlockData::default() would hold at idx after the
\* writes made so far
LastWritten(idx) == IF idx \in DOMAIN written THEN written[idx] ELSE BlockDataDefault

Slots(storage) == 0..(storage.size - 1)

\* Storage::set(target_idx, voxel)
Set(target_idx, voxel) ==
    /\ voxels' = StorageSet(voxels, target_idx, voxel)
    /\ written' = [written EXCEPT ![target_idx] = voxel]
    /\ UNCHANGED <<change_count, dirty, ops>>
    /\ UNCHANGED outside

\* ChunkData::trim() -> Storage::trim()
Trim ==
    /\ voxels' = StorageTrim(voxels)
    /\ UNCHANGED <<change_count, dirty, written, ops>>
    /\ UNCHANGED outside

Init ==
    /\ \E size \in 1..Size : ChunkDataDefault(size, 0..(size - 1))
    /\ OutsideDefault

Next ==
    \/ \E target_idx \in Slots(voxels), voxel \in BlockSet(NumBlocks) : Set(target_idx, voxel)
    \/ Trim

Spec == Init /\ [][Next]_vars

----------------------------------------------------------------------------
(* SpecGrow: enough voxels and values for the palette to outgrow 2 bits *)

\* the values a palette mentions (dead entries included)
Present(storage) ==
    IF storage.kind = "Single" THEN {storage.voxel}
    ELSE {storage.palette[k].voxel_type : k \in 1..Len(storage.palette)}

\* Storage only compares BlockData values for equality, so all values absent
\* from the storage behave alike: the values written are those present and
\* the first absent one.
Writable(storage, n) ==
    LET absent == {k \in 1..n : BlockDataNew("vinox", BlockNames[k]) \notin Present(storage)}
    IN  (Present(storage) \cap BlockSet(n)) \cup
        {BlockDataNew("vinox", BlockNames[k]) : k \in {j \in absent : \A l \in absent : j <= l}}

CountedSet(target_idx, voxel) ==
    /\ ops < MaxOps
    /\ voxels' = StorageSet(voxels, target_idx, voxel)
    /\ written' = [written EXCEPT ![target_idx] = voxel]
    /\ ops' = ops + 1
    /\ UNCHANGED <<change_count, dirty>>
    /\ UNCHANGED outside

InitGrow ==
    /\ \E size \in 1..GrowSize : ChunkDataDefault(size, 0..(size - 1))
    /\ OutsideDefault

NextGrow ==
    \/ \E target_idx \in Slots(voxels), voxel \in Writable(voxels, GrowBlocks) :
            CountedSet(target_idx, voxel)
    \/ Trim

SpecGrow == InitGrow /\ [][NextGrow]_vars

----------------------------------------------------------------------------
(* ChunkData: a 16 x 16 x 16 chunk around a Storage of 4096 voxels *)

CHUNK_SIZE == 16

\* ChunkShape::USIZE
ChunkShapeUSIZE == CHUNK_SIZE * CHUNK_SIZE * CHUNK_SIZE

\* change_count above which ChunkData::set trims
TrimThreshold == 500

\* ChunkShape::linearize([x, y, z]) of ConstShape3usize<16, 16, 16>
Linearize(x, y, z) == x + CHUNK_SIZE * y + CHUNK_SIZE * CHUNK_SIZE * z

\* the coordinates the specifications write to
ChunkCoords ==
    << <<0, 0, 0>>, <<15, 15, 15>>, <<1, 0, 0>>, <<0, 1, 0>>,
       <<0, 0, 1>>, <<15, 0, 15>>, <<7, 8, 9>>, <<0, 15, 0>> >>

WrittenCoords == {ChunkCoords[k] : k \in 1..NumCoords}

\* ChunkData::is_uniform()
IsUniform(storage) == storage.kind = "Single"

\* the ChunkData held in the variables
Chunk == [voxels |-> voxels, change_count |-> change_count, dirty |-> dirty]

\* ChunkData::get(x, y, z)
ChunkGet(chunk, x, y, z) == StorageGet(chunk.voxels, Linearize(x, y, z))

\* change_count is a u16
U16Range == 2 ^ 16

\* ChunkData::is_dirty()
IsDirty(chunk) == chunk.dirty

\* ChunkData::set_dirty(dirty)
SetDirty(chunk, d) == [chunk EXCEPT !.dirty = d]

\* mutant: the trim comes with the write that takes the counter to the threshold
ChunkDataSetAtThreshold(chunk, x, y, z, voxel) ==
    LET stored == StorageSet(chunk.voxels, Linearize(x, y, z), voxel)
        counted == (chunk.change_count + 1) % U16Range
    IN  IF counted >= TrimThreshold
        THEN [voxels |-> StorageTrim(stored), change_count |-> 0, dirty |-> TRUE]
        ELSE [voxels |-> stored, change_count |-> counted, dirty |-> TRUE]

\* mutant: a write of the value already stored is not counted and not flagged
ChunkDataSetSkipSame(chunk, x, y, z, voxel) ==
    LET stored == StorageSet(chunk.voxels, Linearize(x, y, z), voxel)
        counted == (chunk.change_count + 1) % U16Range
    IN  IF StorageGet(chunk.voxels, Linearize(x, y, z)) = voxel
        THEN chunk
        ELSE IF counted > TrimThreshold
        THEN [voxels |-> StorageTrim(stored), change_count |-> 0, dirty |-> TRUE]
        ELSE [voxels |-> stored, change_count |-> counted, dirty |-> TRUE]

\* ChunkData::set(x, y, z, voxel) with the history untouched
ChunkDataSet(chunk, x, y, z, voxel) ==
    LET stored == StorageSet(chunk.voxels, Linearize(x, y, z), voxel)
        counted == (chunk.change_count + 1) % U16Range
    IN  IF counted > TrimThreshold
        THEN [voxels |-> StorageTrim(stored), change_count |-> 0, dirty |-> TRUE]
        ELSE [voxels |-> stored, change_count |-> counted, dirty |-> TRUE]

\* ChunkData::to_raw()
ToRaw(chunk) == [voxels |-> chunk.voxels]

\* mutant: the chunk is rebuilt around a new storage
FromRawFresh(raw_chunk) ==
    [voxels |-> StorageNew(raw_chunk.voxels.size), change_count |-> 0, dirty |-> FALSE]

\* ChunkData::from_raw(raw_chunk)
FromRaw(raw_chunk) ==
    [voxels |-> raw_chunk.voxels, change_count |-> 0, dirty |-> FALSE]

ChunkSet(x, y, z, voxel) ==
    LET after == ChunkDataSet(Chunk, x, y, z, voxel)
    IN  /\ voxels' = after.voxels
        /\ change_count' = after.change_count
        /\ dirty' = after.dirty
        /\ written' = [written EXCEPT ![Linearize(x, y, z)] = voxel]
        /\ UNCHANGED ops
        /\ UNCHANGED outside

\* the chunk is replaced by ChunkData::from_raw(chunk.to_raw())
RoundTrip ==
    LET copy == FromRaw(ToRaw(Chunk))
    IN  /\ voxels' = copy.voxels
        /\ change_count' = copy.change_count
        /\ dirty' = copy.dirty
        /\ UNCHANGED <<written, ops>>
        /\ UNCHANGED outside

ChunkDefault ==
    ChunkDataDefault(ChunkShapeUSIZE, {Linearize(c[1], c[2], c[3]) : c \in WrittenCoords})

InitChunk == ChunkDefault /\ OutsideDefault

AnyChunkSet ==
    \E c \in WrittenCoords, voxel \in BlockSet(ChunkBlocks) :
        ChunkSet(c[1], c[2], c[3], voxel)

NextChunk ==
    \/ AnyChunkSet
    \/ Trim

\* ChunkData::set keeps being called
SpecChunk == InitChunk /\ [][NextChunk]_vars /\ WF_vars(AnyChunkSet)

\* SpecRaw: the chunks a few calls of ChunkData::set lead to
CountedChunkSet(x, y, z, voxel) ==
    LET after == ChunkDataSet(Chunk, x, y, z, voxel)
    IN  /\ ops < MaxChunkOps
        /\ voxels' = after.voxels
        /\ change_count' = after.change_count
        /\ dirty' = after.dirty
        /\ written' = [written EXCEPT ![Linearize(x, y, z)] = voxel]
        /\ ops' = ops + 1
        /\ UNCHANGED outside

NextRaw ==
    \/ \E c \in WrittenCoords, voxel \in BlockSet(ChunkBlocks) :
            CountedChunkSet(c[1], c[2], c[3], voxel)
    \/ Trim
    \/ RoundTrip

SpecRaw == InitChunk /\ [][NextRaw]_vars

----------------------------------------------------------------------------
(* Emptiness against the block table.  An Option is a sequence of at most  *)
(* one element; a call either returns a value or panics.                   *)

Returns(value) == [returns |-> value]

UnwrapNone == [panic |-> "called Option::unwrap() on a None value"]

\* name_to_identifier(namespace, name)
NameToIdentifier(namespace, name) == namespace \o ":" \o name

\* VoxelVisibility, and VoxelVisibility::default()
VoxelVisibility == {"Empty", "Opaque", "Transparent"}

VoxelVisibilityDefault == "Empty"

\* Option::unwrap_or_default on the visibility of a BlockDescriptor
UnwrapOrDefault(option) == IF option = <<>> THEN VoxelVisibilityDefault ELSE option[1]

\* mutant: a descriptor without a visibility counts as opaque
BlockDataIsEmptyNoDefault(block, table) ==
    IF NameToIdentifier(block.namespace, block.name) \notin DOMAIN table
    THEN UnwrapNone
    ELSE Returns(table[NameToIdentifier(block.namespace, block.name)].visibility = <<"Empty">>)

\* BlockData::is_empty(block_table)
BlockDataIsEmpty(block, table) ==
    IF NameToIdentifier(block.namespace, block.name) \notin DOMAIN table
    THEN UnwrapNone
    ELSE Returns(UnwrapOrDefault(table[NameToIdentifier(block.namespace, block.name)].visibility)
                    = "Empty")

\* mutant: the variant of the storage is not looked at
ChunkDataIsEmptyAnyVariant(chunk, table) == BlockDataIsEmpty(ChunkGet(chunk, 0, 0, 0), table)

\* ChunkData::is_empty(block_table): && evaluates its right side only for a
\* uniform chunk
ChunkDataIsEmpty(chunk, table) ==
    IF IsUniform(chunk.voxels)
    THEN BlockDataIsEmpty(ChunkGet(chunk, 0, 0, 0), table)
    ELSE Returns(FALSE)

\* the tables that register some of the first n block names, each with a
\* visibility or without one
BlockTables(n) ==
    UNION {[registered -> {[visibility |-> option] :
                                option \in {<<>>} \cup {<<v>> : v \in VoxelVisibility}}] :
            registered \in SUBSET {NameToIdentifier(b.namespace, b.name) : b \in BlockSet(n)}}

InitEmpty ==
    /\ ChunkDefault
    /\ block_table \in BlockTables(ChunkBlocks)
    /\ view_radius = [horizontal |-> ViewHorizontal, vertical |-> ViewVertical]
    /\ chunk_pos = <<0, 0, 0>>
    /\ chunks = <<>>
    /\ pc = "idle"
    /\ calls = <<>>
    /\ bytes = BitBufferNew(0)
    /\ player_chunk = <<0, 0, 0>>
    /\ chunk_entities = {}

\* SpecEmpty: the chunks of SpecRaw under every block table
SpecEmpty == InitEmpty /\ [][NextRaw]_vars

----------------------------------------------------------------------------
(* ChunkData with coordinates of any size.  linearize checks nothing; the  *)
(* only bound on the way is the slice bytes[idx..idx + bit_length] of      *)
(* BitBuffer::get, which a paletted storage reaches first in get and set.  *)

SliceOutOfRange == [panic |-> "range end index out of range"]

IsPanic(outcome) == "panic" \in DOMAIN outcome

\* the slice of BitBuffer::get for slot idx lies within the buffer
SliceInRange(storage, idx) ==
    idx * storage.indices_length + storage.indices_length <= storage.data.len

\* Storage::get(idx) for any idx
StorageGetAt(storage, idx) ==
    IF storage.kind = "Single" THEN storage.voxel
    ELSE IF SliceInRange(storage, idx) THEN StorageGet(storage, idx)
    ELSE SliceOutOfRange

\* Storage::set(target_idx, voxel) for any target_idx: a uniform storage
\* returns early on its own value, and is promoted before the index is used
\* on any other
StorageSetAt(storage, target_idx, voxel) ==
    IF storage.kind = "Single" /\ storage.voxel = voxel THEN storage
    ELSE IF target_idx < storage.size THEN StorageSet(storage, target_idx, voxel)
    ELSE SliceOutOfRange

\* ChunkData::get(x, y, z) for any coordinates
ChunkGetAt(chunk, x, y, z) == StorageGetAt(chunk.voxels, Linearize(x, y, z))

\* ChunkData::get_identifier(x, y, z) for any coordinates
ChunkGetIdentifierAt(chunk, x, y, z) ==
    LET voxel == ChunkGetAt(chunk, x, y, z)
    IN  IF IsPanic(voxel) THEN voxel
        ELSE Returns(NameToIdentifier(voxel.namespace, voxel.name))

\* ChunkData::set(x, y, z, voxel) for any coordinates
ChunkDataSetAt(chunk, x, y, z, voxel) ==
    IF IsPanic(StorageSetAt(chunk.voxels, Linearize(x, y, z), voxel))
    THEN SliceOutOfRange
    ELSE ChunkDataSet(chunk, x, y, z, voxel)

\* coordinates with a component equal to the edge of the chunk
OutOfRangeCoords ==
    {c \in {0, CHUNK_SIZE - 1, CHUNK_SIZE} \X {0, CHUNK_SIZE - 1, CHUNK_SIZE}
            \X {0, CHUNK_SIZE - 1, CHUNK_SIZE} :
        \E k \in 1..3 : c[k] >= CHUNK_SIZE}

----------------------------------------------------------------------------
(* Calls of the ChunkData methods, one at a time, each logged in calls     *)
(* with its arguments and what it returned.                                *)

\* mutant: z runs fastest
DelinearizeZFastest(idx) ==
    << idx \div (CHUNK_SIZE * CHUNK_SIZE), (idx \div CHUNK_SIZE) % CHUNK_SIZE, idx % CHUNK_SIZE >>

\* ChunkData::delinearize(idx): ChunkShape::delinearize of
\* ConstShape3usize<16, 16, 16>, as the tuple (x, y, z)
Delinearize(idx) ==
    << idx % CHUNK_SIZE, (idx \div CHUNK_SIZE) % CHUNK_SIZE, idx \div (CHUNK_SIZE * CHUNK_SIZE) >>

\* the coordinates and values the calls of SpecCalls use
ScenarioCoords == {<<0, 0, 0>>, <<15, 15, 15>>}

ScenarioBlocks == BlockSet(3)

\* an entry of calls
Call(method, args, returned) == [method |-> method, args |-> args, returned |-> returned]

\* the method returns `returned` and leaves the chunk as `after`
Called(method, args, returned, after) ==
    /\ Len(calls) < MaxCalls
    /\ calls' = Append(calls, Call(method, args, returned))
    /\ voxels' = after.voxels
    /\ change_count' = after.change_count
    /\ dirty' = after.dirty
    /\ UNCHANGED <<ops, block_table, view_radius, chunk_pos, chunks, pc>>
    /\ UNCHANGED <<bytes, player_chunk, chunk_entities>>

\* chunk.set(x, y, z, voxel)
CallSet(x, y, z, voxel) ==
    /\ Called("set", <<x, y, z, voxel>>, <<>>, ChunkDataSet(Chunk, x, y, z, voxel))
    /\ written' = [written EXCEPT ![Linearize(x, y, z)] = voxel]

\* chunk.get(x, y, z): &self
CallGet(x, y, z) ==
    /\ Called("get", <<x, y, z>>, ChunkGet(Chunk, x, y, z), Chunk)
    /\ UNCHANGED written

\* chunk.get_identifier(x, y, z): &self
CallGetIdentifier(x, y, z) ==
    /\ Called("get_identifier", <<x, y, z>>, ChunkGetIdentifierAt(Chunk, x, y, z), Chunk)
    /\ UNCHANGED written

\* chunk.is_uniform(): &self
CallIsUniform ==
    /\ Called("is_uniform", <<>>, IsUniform(voxels), Chunk)
    /\ UNCHANGED written

\* chunk.is_dirty(): &self
CallIsDirty ==
    /\ Called("is_dirty", <<>>, IsDirty(Chunk), Chunk)
    /\ UNCHANGED written

\* mutant: taking the snapshot marks the chunk clean
CallToRawClearsDirty ==
    /\ Called("to_raw", <<>>, ToRaw(Chunk), SetDirty(Chunk, FALSE))
    /\ UNCHANGED written

\* chunk.to_raw(): &self, the storage is cloned
CallToRaw ==
    /\ Called("to_raw", <<>>, ToRaw(Chunk), Chunk)
    /\ UNCHANGED written

InitCalls ==
    /\ ChunkDataDefault(ChunkShapeUSIZE, {Linearize(c[1], c[2], c[3]) : c \in ScenarioCoords})
    /\ OutsideDefault

NextCalls ==
    \/ \E c \in ScenarioCoords, voxel \in ScenarioBlocks : CallSet(c[1], c[2], c[3], voxel)
    \/ \E c \in ScenarioCoords : CallGet(c[1], c[2], c[3])
    \/ \E c \in ScenarioCoords : CallGetIdentifier(c[1], c[2], c[3])
    \/ CallIsUniform
    \/ CallIsDirty
    \/ CallToRaw

SpecCalls == InitCalls /\ [][NextCalls]_vars

\* ChunkData::linearize(x, y, z), an associated function, called on its own
CallLinearize(x, y, z) ==
    /\ calls = <<>>
    /\ Called("linearize", <<x, y, z>>, Linearize(x, y, z), Chunk)
    /\ UNCHANGED written

\* ChunkData::delinearize(idx), an associated function, called on its own
CallDelinearize(idx) ==
    /\ calls = <<>>
    /\ Called("delinearize", <<idx>>, Delinearize(idx), Chunk)
    /\ UNCHANGED written

\* SpecShape: one call of linearize on any coordinates of the chunk, or of
\* delinearize on any index of its storage
NextShape ==
    \/ \E x \in 0..(CHUNK_SIZE - 1), y \in 0..(CHUNK_SIZE - 1), z \in 0..(CHUNK_SIZE - 1) :
            CallLinearize(x, y, z)
    \/ \E idx \in 0..(ChunkShapeUSIZE - 1) : CallDelinearize(idx)

SpecShape == InitCalls /\ [][NextShape]_vars

----------------------------------------------------------------------------
(* A BitBuffer on its own: new, then set and get on ranges inside it.  The  *)
(* slice bytes[idx..idx + bit_length] must lie inside the buffer, and       *)
(* store_le / load_le take 1 to 64 bits.  calls holds the latest call.      *)

\* the (idx, bit_length) ranges inside a buffer
BitRanges(buffer) ==
    {r \in (0..buffer.len) \X (1..MaxBitLength) : r[1] + r[2] <= buffer.len}

\* the values passed as `bits` for a range of bit_length bits: those that
\* fit, and the first one too wide for it
BitValues(bit_length) == 0..Pow2(bit_length)

\* BitBuffer::new(size)
InitBits ==
    /\ ChunkDefault
    /\ block_table = <<>>
    /\ view_radius = [horizontal |-> ViewHorizontal, vertical |-> ViewVertical]
    /\ chunk_pos = <<0, 0, 0>>
    /\ chunks = <<>>
    /\ pc = "idle"
    /\ player_chunk = <<0, 0, 0>>
    /\ chunk_entities = {}
    /\ \E size \in 0..MaxBits :
            /\ bytes = BitBufferNew(size)
            /\ calls = <<Call("new", <<size>>, <<>>)>>

\* buffer.set(idx, bit_length, bits)
BitSet(idx, bit_length, bits) ==
    /\ bytes' = BitBufferSet(bytes, idx, bit_length, bits)
    /\ calls' = <<Call("set", <<idx, bit_length, bits>>, <<>>)>>
    /\ UNCHANGED chunkVars
    /\ UNCHANGED <<block_table, view_radius, chunk_pos, chunks, pc, player_chunk, chunk_entities>>

\* buffer.get(idx, bit_length)
BitGet(idx, bit_length) ==
    /\ calls' = <<Call("get", <<idx, bit_length>>, BitBufferGet(bytes, idx, bit_length))>>
    /\ UNCHANGED bytes
    /\ UNCHANGED chunkVars
    /\ UNCHANGED <<block_table, view_radius, chunk_pos, chunks, pc, player_chunk, chunk_entities>>

NextBits ==
    \/ \E r \in BitRanges(bytes) : \E bits \in BitValues(r[2]) : BitSet(r[1], r[2], bits)
    \/ \E r \in BitRanges(bytes) : BitGet(r[1], r[2])

SpecBits == InitBits /\ [][NextBits]_vars

----------------------------------------------------------------------------
(* ChunkManager::get_chunk_positions (vinox-client, world/chunks.rs).  An  *)
(* IVec3 is a triple <<x, y, z>>.  The sort key is the f32 distance to     *)
(* chunk_pos; for the coordinates of this model every squared distance is  *)
(* an integer far below 2^24 and the correctly rounded square roots of two *)
(* different ones differ, so the keys compare as the squared distances do. *)

\* the number of values of the range -radius .. radius (exclusive)
RangeLen(radius) == IF radius > 0 THEN 2 * radius ELSE 0

\* the k-th (x, y, z) the three nested loops reach, k from 0: x outermost,
\* then z, then y
LoopOffset(view_radius_, k) ==
    LET nz == RangeLen(view_radius_.horizontal)
        ny == RangeLen(view_radius_.vertical)
    IN  << (k \div (nz * ny)) - view_radius_.horizontal,
           (k % ny) - view_radius_.vertical,
           ((k \div ny) % nz) - view_radius_.horizontal >>

\* mutant: offsets on the circle are let through
SkippedOnlyOutside(view_radius_, offset) ==
    offset[1] * offset[1] + offset[3] * offset[3]
        > view_radius_.horizontal * view_radius_.horizontal

\* the test that makes the loop body continue
Skipped(view_radius_, offset) ==
    offset[1] * offset[1] + offset[3] * offset[3]
        >= view_radius_.horizontal * view_radius_.horizontal

\* mutant: the y of the key is not clamped
ChunkKeyUnclamped(chunk_pos_, offset) ==
    << chunk_pos_[1] + offset[1] * CHUNK_SIZE,
       chunk_pos_[2] + offset[2] * CHUNK_SIZE,
       chunk_pos_[3] + offset[3] * CHUNK_SIZE >>

\* chunk_key: chunk_pos + offset * CHUNK_SIZE with pos.y = pos.y.max(0)
ChunkKey(chunk_pos_, offset) ==
    << chunk_pos_[1] + offset[1] * CHUNK_SIZE,
       IF chunk_pos_[2] + offset[2] * CHUNK_SIZE > 0
       THEN chunk_pos_[2] + offset[2] * CHUNK_SIZE ELSE 0,
       chunk_pos_[3] + offset[3] * CHUNK_SIZE >>

\* the Vec the loops push, in push order
Pushed(view_radius_, chunk_pos_) ==
    LET total == RangeLen(view_radius_.horizontal) * RangeLen(view_radius_.horizontal)
                    * RangeLen(view_radius_.vertical)
        kept == SelectSeq([k \in 1..total |-> LoopOffset(view_radius_, k - 1)],
                          LAMBDA offset : ~Skipped(view_radius_, offset))
    IN  <<>> \o [k \in 1..Len(kept) |-> ChunkKey(chunk_pos_, kept[k])]

\* the square of key.as_vec3().distance(chunk_pos.as_vec3())
DistanceSquared(a, b) ==
    (a[1] - b[1]) * (a[1] - b[1]) + (a[2] - b[2]) * (a[2] - b[2])
        + (a[3] - b[3]) * (a[3] - b[3])

\* (in the definitions below, <<>> \o f and <<>> @@ f are f: they make TLC
\* tabulate f once instead of evaluating it at every application)

\* sort_unstable_by_key leaves the order of equal keys open
TieOrders == {"as pushed", "reversed"}

\* mutant: farthest first
SortedByKeyDescending(list, center, ties) ==
    LET n == Len(list)
        key == <<>> \o [i \in 1..n |-> DistanceSquared(list[i], center)]
        keys == {key[i] : i \in 1..n}
        before == <<>> @@ [k \in keys |-> Cardinality({i \in 1..n : key[i] > k})]
        bucket == <<>> @@ [k \in keys |-> SelectSeq(list, LAMBDA pos : DistanceSquared(pos, center) = k)]
    IN  [r \in 1..n |->
            LET k == CHOOSE k \in keys : before[k] < r /\ r <= before[k] + Len(bucket[k])
            IN  bucket[k][r - before[k]]]

\* chunks.sort_unstable_by_key(distance to center): the elements of each key
\* follow those of all smaller keys, among themselves in one of TieOrders
SortedByKey(list, center, ties) ==
    LET n == Len(list)
        key == <<>> \o [i \in 1..n |-> DistanceSquared(list[i], center)]
        keys == {key[i] : i \in 1..n}
        before == <<>> @@ [k \in keys |-> Cardinality({i \in 1..n : key[i] < k})]
        bucket == <<>> @@ [k \in keys |-> SelectSeq(list, LAMBDA pos : DistanceSquared(pos, center) = k)]
    IN  [r \in 1..n |->
            LET k == CHOOSE k \in keys : before[k] < r /\ r <= before[k] + Len(bucket[k])
            IN  IF ties = "as pushed"
                THEN bucket[k][r - before[k]]
                ELSE bucket[k][Len(bucket[k]) + 1 - (r - before[k])]]

\* mutant: the Vec is returned as pushed
GetChunkPositionsUnsorted(view_radius_, chunk_pos_, ties) == Pushed(view_radius_, chunk_pos_)

\* ChunkManager::get_chunk_positions(chunk_pos)
GetChunkPositions(view_radius_, chunk_pos_, ties) ==
    SortedByKey(Pushed(view_radius_, chunk_pos_), chunk_pos_, ties)

\* the ViewRadius resources: the one ChunkPlugin inserts and the small ones
Radii ==
    {[horizontal |-> ViewHorizontal, vertical |-> ViewVertical]} \cup
    {[horizontal |-> h, vertical |-> v] : h \in 0..MaxHorizontal, v \in 0..MaxVertical}

\* the chunk_pos arguments: chunk-aligned positions around the origin, those
\* below the world floor included
Centers ==
    {<<x * CHUNK_SIZE, y * CHUNK_SIZE, z * CHUNK_SIZE>> :
        x \in -MaxCenter..MaxCenter, y \in -MaxCenter..MaxCenter, z \in -MaxCenter..MaxCenter}

InitManager ==
    /\ ChunkDefault
    /\ block_table = <<>>
    /\ view_radius \in Radii
    /\ chunk_pos = <<0, 0, 0>>
    /\ chunks = <<>>
    /\ pc = "idle"
    /\ calls = <<>>
    /\ bytes = BitBufferNew(0)
    /\ player_chunk = <<0, 0, 0>>
    /\ chunk_entities = {}

\* the client radius is asked around the origin, the small radii around
\* every center
CentersFor(view_radius_) ==
    IF view_radius_.horizontal > MaxHorizontal THEN {<<0, 0, 0>>} ELSE Centers

\* a caller asks once for the positions around pos
ListChunkPositions(pos, ties) ==
    /\ pc = "idle"
    /\ chunk_pos' = pos
    /\ chunks' = GetChunkPositions(view_radius, pos, ties)
    /\ pc' = "listed"
    /\ UNCHANGED <<view_radius, block_table, calls, bytes, player_chunk, chunk_entities>>
    /\ UNCHANGED chunkVars

NextManager ==
    \E pos \in CentersFor(view_radius), ties \in TieOrders : ListChunkPositions(pos, ties)

SpecManager == InitManager /\ [][NextManager]_vars

----------------------------------------------------------------------------
(* The chunk entities of the client (vinox-client, world/chunks.rs):       *)
(* update_player_location, receive_chunks, clear_unloaded_chunks and       *)
(* destroy_chunks, each system run as one step.  The i32 squares are far   *)
(* from overflow at the distances of this model.                           *)

\* the loops of is_in_radius reach an (x, z) they do not skip, and with it
\* the return statement in their body
ReachesReturn(view_radius_) ==
    \E x \in -view_radius_.horizontal..(view_radius_.horizontal - 1),
       z \in -view_radius_.horizontal..(view_radius_.horizontal - 1) :
        x * x + z * z < view_radius_.horizontal * view_radius_.horizontal

\* PlayerChunk::is_in_radius(pos, view_radius) with self.chunk_pos = chunk_pos_:
\* the first (x, z) not skipped returns the comparison, which does not
\* depend on x and z; with none the loops end and false is returned
IsInRadius(chunk_pos_, pos, view_radius_) ==
    IF ReachesReturn(view_radius_)
    THEN \/ (pos[1] - chunk_pos_[1]) * (pos[1] - chunk_pos_[1])
                + (pos[3] - chunk_pos_[3]) * (pos[3] - chunk_pos_[3])
                > view_radius_.horizontal * view_radius_.horizontal * CHUNK_SIZE * CHUNK_SIZE
         \/ (pos[2] - chunk_pos_[2]) * (pos[2] - chunk_pos_[2])
                > view_radius_.vertical * view_radius_.vertical * CHUNK_SIZE * CHUNK_SIZE
    ELSE FALSE

\* an entity with a ChunkComp at pos, tagged RemoveChunk or not
ChunkEntity(pos, remove) == [pos |-> pos, remove |-> remove]

\* the chunk positions of events and of the player
EvictPositions == {<<x * CHUNK_SIZE, 0, 0>> : x \in -MaxDistance..MaxDistance}

\* ChunkPlugin::build; a resource just inserted counts as changed
InitEvict ==
    /\ ChunkDefault
    /\ block_table = <<>>
    /\ view_radius \in Radii
    /\ chunk_pos = <<0, 0, 0>>
    /\ chunks = <<>>
    /\ pc = "changed"
    /\ calls = <<>>
    /\ bytes = BitBufferNew(0)
    /\ player_chunk = <<0, 0, 0>>
    /\ chunk_entities = {}

\* update_player_location: the player is now in new_chunk
UpdatePlayerLocation(new_chunk) ==
    /\ new_chunk # player_chunk
    /\ player_chunk' = new_chunk
    /\ pc' = "changed"
    /\ UNCHANGED chunk_entities
    /\ UNCHANGED chunkVars
    /\ UNCHANGED <<block_table, view_radius, chunk_pos, chunks, calls, bytes>>

\* receive_chunks on one CreateChunkEvent for pos: an entity that is there
\* gets the new ChunkComp, otherwise one is spawned
ReceiveChunks(pos) ==
    /\ Cardinality(chunk_entities) < MaxLoaded
    /\ chunk_entities' =
            IF /\ IsInRadius(player_chunk, pos, view_radius)
               /\ \A e \in chunk_entities : e.pos # pos
            THEN chunk_entities \cup {ChunkEntity(pos, FALSE)}
            ELSE chunk_entities
    /\ UNCHANGED <<player_chunk, pc>>
    /\ UNCHANGED chunkVars
    /\ UNCHANGED <<block_table, view_radius, chunk_pos, chunks, calls, bytes>>

\* clear_unloaded_chunks, run_if(should_update_chunks): it runs when
\* PlayerChunk changed since it last ran
ClearUnloadedChunks ==
    /\ pc = "changed"
    /\ pc' = "idle"
    /\ chunk_entities' =
            {ChunkEntity(e.pos, e.remove \/ ~IsInRadius(player_chunk, e.pos, view_radius)) :
                e \in chunk_entities}
    /\ UNCHANGED player_chunk
    /\ UNCHANGED chunkVars
    /\ UNCHANGED <<block_table, view_radius, chunk_pos, chunks, calls, bytes>>

\* destroy_chunks: the entities tagged RemoveChunk are despawned
DestroyChunks ==
    /\ chunk_entities' = {e \in chunk_entities : ~e.remove}
    /\ UNCHANGED <<player_chunk, pc>>
    /\ UNCHANGED chunkVars
    /\ UNCHANGED <<block_table, view_radius, chunk_pos, chunks, calls, bytes>>

NextEvict ==
    \/ \E new_chunk \in EvictPositions : UpdatePlayerLocation(new_chunk)
    \/ \E pos \in EvictPositions : ReceiveChunks(pos)
    \/ ClearUnloadedChunks
    \/ DestroyChunks

SpecEvict == InitEvict /\ [][NextEvict]_vars

----------------------------------------------------------------------------
(* Properties *)

\* number of slots whose decoded index is k (0-based)
Occupancy(storage, k) ==
    Cardinality({i \in Slots(storage) : SlotIndex(storage, i) = k})

LiveEntries(storage) == {k \in 1..Len(storage.palette) : storage.palette[k].ref_count # 0}

RECURSIVE SumRefCounts(_)
SumRefCounts(palette) ==
    IF palette = <<>> THEN 0 ELSE Head(palette).ref_count + SumRefCounts(Tail(palette))

\* C1: the storage is a plain array: get at every index returns the value of
\* the last set at that index, or BlockData::default() if it was never set,
\* across promotion, trims and palette growth.
C1_ArrayRefinement ==
    \A i \in Slots(voxels) : StorageGet(voxels, i) = LastWritten(i)

\* C1 witness: a storage whose palette has grown to 4-bit indices and whose
\* five voxels hold five different values.
C1_Witness ==
    /\ voxels.kind = "Multi"
    /\ voxels.indices_length = 4
    /\ Cardinality({StorageGet(voxels, i) : i \in Slots(voxels)}) = 5

\* C2: in every paletted state each palette entry's ref_count is the number of
\* slots that decode to its index.
C2_RefCountIsOccupancy ==
    voxels.kind = "Multi" =>
        \A k \in 1..Len(voxels.palette) :
            Occupancy(voxels, k - 1) = voxels.palette[k].ref_count

\* C2 witness: a grown palette that holds an unreferenced entry next to an
\* entry shared by two slots.
C2_Witness ==
    /\ voxels.kind = "Multi"
    /\ voxels.indices_length = 4
    /\ \E k \in 1..Len(voxels.palette) : voxels.palette[k].ref_count = 0
    /\ \E k \in 1..Len(voxels.palette) : voxels.palette[k].ref_count = 2

\* C3: in every paletted state the ref_counts add up to the size of the
\* volume, and none has gone below 0.
C3_RefCountConservation ==
    voxels.kind = "Multi" =>
        /\ SumRefCounts(voxels.palette) = voxels.size
        /\ \A k \in 1..Len(voxels.palette) : voxels.palette[k].ref_count >= 0

\* C3 witness: a paletted storage of three voxels with three entries, one of
\* them unreferenced.
C3_Witness ==
    /\ voxels.kind = "Multi"
    /\ voxels.size = 3
    /\ Len(voxels.palette) = 3
    /\ \E k \in 1..3 : voxels.palette[k].ref_count = 0

\* C4: one set of a value v that differs from the value u of a uniform storage
\* makes it paletted; then get(i) = v and get(j) = u everywhere else.
C4_PromotionOnDivergence ==
    voxels.kind = "Single" =>
        \A i \in Slots(voxels), v \in BlockSet(NumBlocks) \ {voxels.voxel} :
            LET after == StorageSet(voxels, i, v)
            IN  /\ ~IsUniform(after)
                /\ StorageGet(after, i) = v
                /\ \A j \in Slots(voxels) \ {i} : StorageGet(after, j) = voxels.voxel

\* C4 witness: the state a single differing write leaves behind on a new
\* storage of more than one voxel.
C4_Witness ==
    /\ voxels.size > 1
    /\ \E i \in Slots(voxels), v \in BlockSet(NumBlocks) \ {BlockDataDefault} :
            /\ voxels = StorageSet(StorageNew(voxels.size), i, v)
            /\ written = [j \in Slots(voxels) |-> IF j = i THEN v ELSE BlockDataDefault]

\* C5 (as claimed): whenever the storage is paletted and exactly one palette
\* entry has a non-zero ref_count, trim collapses it to a uniform storage
\* holding that entry's value.
C5_DemotionOnConvergence ==
    (voxels.kind = "Multi" /\ Cardinality(LiveEntries(voxels)) = 1) =>
        LET trimmed == StorageTrim(voxels)
        IN  /\ IsUniform(trimmed)
            /\ \A k \in LiveEntries(voxels) : trimmed.voxel = voxels.palette[k].voxel_type

\* every voxel of the chunk holds the same value: the voxels written all
\* hold one value, which is BlockData::default() if a voxel was never written
Converged ==
    \E v \in BlockSet(ChunkBlocks) :
        /\ \A i \in DOMAIN written : written[i] = v
        /\ Cardinality(DOMAIN written) < voxels.size => v = BlockDataDefault

\* C6 (as claimed): while ChunkData::set keeps being called, a chunk whose
\* voxels all hold the same value becomes uniform, unless a write makes the
\* values differ again.
C6_AutomaticDemotion ==
    Converged ~> (IsUniform(voxels) \/ ~Converged)

\* C7: for the chunk c at hand, ChunkData::from_raw(c.to_raw()) reads the same
\* value as c at every coordinate of [0, 16)^3 and is uniform exactly if c is.
C7_SnapshotRoundTrip ==
    LET copy == FromRaw(ToRaw(Chunk))
    IN  /\ \A x \in 0..(CHUNK_SIZE - 1), y \in 0..(CHUNK_SIZE - 1), z \in 0..(CHUNK_SIZE - 1) :
                ChunkGet(copy, x, y, z) = ChunkGet(Chunk, x, y, z)
        /\ IsUniform(copy.voxels) = IsUniform(voxels)

\* C7 witness: a paletted chunk rebuilt from its snapshot after its two far
\* corners were written.
C7_Witness ==
    /\ ~dirty
    /\ voxels.kind = "Multi"
    /\ written[Linearize(0, 0, 0)] # BlockDataDefault
    /\ written[Linearize(15, 15, 15)] # BlockDataDefault

\* C11: ChunkData::set trims the storage and resets change_count to 0
\* exactly when change_count + 1 exceeds 500, and otherwise stores the
\* incremented count; change_count stays within 0 .. 500, far below the u16
\* range.
C11_TrimOnThreshold ==
    /\ change_count \in 0..TrimThreshold
    /\ TrimThreshold + 1 < U16Range
    /\ \A c \in WrittenCoords, v \in BlockSet(ChunkBlocks) :
            LET stored == StorageSet(voxels, Linearize(c[1], c[2], c[3]), v)
                after == ChunkDataSet(Chunk, c[1], c[2], c[3], v)
            IN  IF change_count + 1 > TrimThreshold
                THEN after.change_count = 0 /\ after.voxels = StorageTrim(stored)
                ELSE after.change_count = change_count + 1 /\ after.voxels = stored

\* C11 witness: the paletted chunk right after the write that reset the
\* counter.
C11_Witness ==
    /\ change_count = 0
    /\ voxels.kind = "Multi"
    /\ written[Linearize(0, 0, 0)] # BlockDataDefault

\* C12: whatever the dirty flag was and whatever value is written, the value
\* already stored included, ChunkData::set leaves is_dirty() true and counts
\* one write.
C12_EveryWriteCounts ==
    \A d \in BOOLEAN, c \in WrittenCoords, v \in BlockSet(ChunkBlocks) :
        LET after == ChunkDataSet(SetDirty(Chunk, d), c[1], c[2], c[3], v)
        IN  /\ IsDirty(after)
            /\ after.change_count =
                    (IF change_count = TrimThreshold THEN 0 ELSE change_count + 1)

\* C12 witness: a chunk still uniform after three writes, each of the value
\* it already held.
C12_Witness ==
    /\ voxels.kind = "Single"
    /\ change_count = 3
    /\ dirty

\* the block table classifies the value as Empty: its identifier is
\* registered and its visibility is Empty, given or by default
LooksUpEmpty(table, block) ==
    \E id \in DOMAIN table :
        /\ id = NameToIdentifier(block.namespace, block.name)
        /\ table[id].visibility \in {<<>>, <<"Empty">>}

\* C13: ChunkData::is_empty returns true exactly if the chunk is uniform and
\* the block table classifies its one value as Empty; on a paletted chunk it
\* returns false whatever the table and the voxels hold.
C13_EmptyIffUniformAndEmpty ==
    LET answer == ChunkDataIsEmpty(Chunk, block_table)
    IN  /\ answer = Returns(TRUE) <=>
                (voxels.kind = "Single" /\ LooksUpEmpty(block_table, voxels.voxel))
        /\ voxels.kind = "Multi" => answer = Returns(FALSE)

\* C13 witness: a paletted chunk whose voxels all hold air again, under a
\* table that registers air as Empty.
C13_Witness ==
    /\ voxels.kind = "Multi"
    /\ \A i \in DOMAIN written : written[i] = BlockDataDefault
    /\ "vinox:air" \in DOMAIN block_table
    /\ block_table["vinox:air"].visibility = <<"Empty">>

\* C14 (as claimed): with a coordinate component of 16, ChunkData::get,
\* get_identifier and set panic; set changes the value of no voxel of the
\* chunk.
C14_OutOfRangeIsFatal ==
    \A c \in OutOfRangeCoords :
        /\ \A v \in BlockSet(ChunkBlocks) :
                LET after == ChunkDataSetAt(Chunk, c[1], c[2], c[3], v)
                IN  /\ ~IsPanic(after) =>
                            \A i \in Slots(voxels) :
                                StorageGet(after.voxels, i) = StorageGet(voxels, i)
                    /\ IsPanic(after)
        /\ IsPanic(ChunkGetAt(Chunk, c[1], c[2], c[3]))
        /\ IsPanic(ChunkGetIdentifierAt(Chunk, c[1], c[2], c[3]))

\* C15 (as claimed): for a block whose identifier the table does not
\* register, BlockData::is_empty returns, and reports the block as empty; so
\* does ChunkData::is_empty on a uniform chunk of such a block.
C15_LookupMissIsDegraded ==
    /\ \A block \in BlockSet(ChunkBlocks) :
            NameToIdentifier(block.namespace, block.name) \notin DOMAIN block_table =>
                BlockDataIsEmpty(block, block_table) = Returns(TRUE)
    /\ (/\ voxels.kind = "Single"
        /\ NameToIdentifier(voxels.voxel.namespace, voxels.voxel.name) \notin DOMAIN block_table)
            => ChunkDataIsEmpty(Chunk, block_table) = Returns(TRUE)

\* C8: a storage on which set has not been called is uniform and reads
\* BlockData::default() at every index.
C8_FreshIsUniform ==
    ops = 0 =>
        /\ IsUniform(voxels)
        /\ \A i \in Slots(voxels) : StorageGet(voxels, i) = BlockDataDefault

\* C8 witness: the new storage of GrowSize voxels.
C8_Witness == ops = 0 /\ voxels = StorageNew(GrowSize)

\* C9: no two palette entries hold the same value, and the entries in use are
\* as many as the distinct values in the volume.
C9_NoDuplicateEntries ==
    voxels.kind = "Multi" =>
        /\ \A j, k \in 1..Len(voxels.palette) :
                j # k => voxels.palette[j].voxel_type # voxels.palette[k].voxel_type
        /\ Cardinality(LiveEntries(voxels)) =
                Cardinality({StorageGet(voxels, i) : i \in Slots(voxels)})

\* C9 witness: two slots share one entry while another entry, whose value was
\* overwritten everywhere, stays behind unreferenced.
C9_Witness ==
    /\ voxels.kind = "Multi"
    /\ Len(voxels.palette) = 3
    /\ \E k \in 1..3 : voxels.palette[k].ref_count = 0
    /\ \E k \in 2..3 : voxels.palette[k].ref_count = 2

\* set(target_idx, voxel) has to append an entry to a full palette: the value
\* is in no entry, no entry is left without a reference once the slot's old
\* occupant is released, and the palette holds palette_capacity entries
AppendsToFullPalette(storage, target_idx, voxel) ==
    /\ storage.kind = "Multi"
    /\ Len(storage.palette) = storage.palette_capacity
    /\ \A k \in 1..Len(storage.palette) :
            storage.palette[k].voxel_type # voxel /\ storage.palette[k].ref_count >= 1
    /\ storage.palette[SlotIndex(storage, target_idx) + 1].ref_count >= 2

\* grow_palette doubled the index width from `before` to `after`, sized the
\* buffer for it, and kept every slot's index and the palette
GrowthPreserves(before, after) ==
    LET grown == after
    IN  /\ grown.indices_length = 2 * before.indices_length
        /\ grown.indices_length \in {4, 8, 16}
        /\ grown.data.len = before.size * grown.indices_length
        /\ \A p \in grown.data.ones : p >= 0 /\ p < grown.data.len
        /\ \A i \in Slots(before) : SlotIndex(grown, i) = SlotIndex(before, i)
        /\ grown.palette = before.palette
        /\ grown.size = before.size

\* C10: when set must append an entry and the palette is at capacity,
\* grow_palette doubles indices_length (2 -> 4 -> 8 -> 16), reallocates the
\* bit buffer to size * indices_length bits and re-encodes every slot to the
\* index it had; the growth changes no palette entry and no ref_count (the
\* set releases the old occupant before it and appends the new entry after
\* it).  From every state with a full palette, each set that has to append is
\* followed through grow_palette and to its end; a grown storage with as many
\* palette entries as voxels (the highest indices the volume can hold) is
\* grown twice more, for the widths 8 and 16.
C10_PaletteGrowth ==
    voxels.kind = "Multi" =>
        /\ (/\ Len(voxels.palette) = voxels.palette_capacity
            /\ \A k \in 1..Len(voxels.palette) : voxels.palette[k].ref_count >= 1) =>
                \A i \in Slots(voxels), v \in Writable(voxels, GrowBlocks) :
                    AppendsToFullPalette(voxels, i, v) =>
                        LET released ==
                                [voxels EXCEPT
                                    !.palette = DecrementTarget(@, SlotIndex(voxels, i))]
                            after == StorageSet(voxels, i, v)
                        IN  /\ GrowthPreserves(released, GrowPalette(released))
                            /\ after.indices_length = 2 * voxels.indices_length
                            /\ after.palette_capacity = Pow2(after.indices_length)
                            /\ after.data.len = voxels.size * after.indices_length
                            /\ \A j \in Slots(voxels) \ {i} :
                                    SlotIndex(after, j) = SlotIndex(voxels, j)
                            /\ SlotIndex(after, i) = Len(voxels.palette)
                            /\ after.palette =
                                    Append(released.palette, PaletteEntry(v, 1))
        /\ (voxels.indices_length > InitialIndicesLength
                /\ Len(voxels.palette) = voxels.size) =>
                LET twice == GrowPalette(voxels)
                    thrice == GrowPalette(twice)
                IN  /\ GrowthPreserves(voxels, twice)
                    /\ GrowthPreserves(twice, thrice)

\* C10 witness: the storage right after the set that made the palette grow:
\* 4-bit indices, capacity 16, five entries each referenced once.
C10_Witness ==
    /\ voxels.kind = "Multi"
    /\ voxels.indices_length = 4
    /\ voxels.palette_capacity = 16
    /\ voxels.data.len = 20
    /\ Len(voxels.palette) = 5
    /\ \A k \in 1..5 : voxels.palette[k].ref_count = 1
    /\ ops = 4

\* the offsets of the claimed inclusion rule: x and z in
\* [-horizontal, horizontal), y in [-vertical, vertical), x^2 + z^2 strictly
\* below horizontal^2
IncludedOffsets(view_radius_) ==
    {offset \in (-view_radius_.horizontal..view_radius_.horizontal - 1)
                    \X (-view_radius_.vertical..view_radius_.vertical - 1)
                    \X (-view_radius_.horizontal..view_radius_.horizontal - 1) :
        offset[1] * offset[1] + offset[3] * offset[3]
            < view_radius_.horizontal * view_radius_.horizontal}

\* C16: the list get_chunk_positions returns has one element for each offset
\* of the inclusion rule and no other: it is as long as there are included
\* offsets, and every position occurs in it as often as included offsets
\* lead to it.
C16_InclusionRule ==
    pc = "listed" =>
        LET included == IncludedOffsets(view_radius)
            positions == {chunks[i] : i \in 1..Len(chunks)}
        IN  /\ Len(chunks) = Cardinality(included)
            /\ \A offset \in included : ChunkKey(chunk_pos, offset) \in positions
            /\ \A pos \in positions :
                    Cardinality({i \in 1..Len(chunks) : chunks[i] = pos})
                        = Cardinality({offset \in included :
                                            ChunkKey(chunk_pos, offset) = pos})

\* C16 witness: radii 2 and 1 around a center on the floor: the 9 columns of
\* the disc (the box has 16, 4 of them on the circle), 2 levels each.
C16_Witness ==
    /\ pc = "listed"
    /\ view_radius = [horizontal |-> 2, vertical |-> 1]
    /\ chunk_pos[2] = 0
    /\ Len(chunks) = 18

\* C17 (as claimed): with radii 10 and 4 around (0,0,0), every returned
\* coordinate has x^2 + z^2 < 100.
C17_WithinRadiusInGridUnits ==
    (/\ pc = "listed"
     /\ view_radius = [horizontal |-> ViewHorizontal, vertical |-> ViewVertical]
     /\ chunk_pos = <<0, 0, 0>>) =>
        \A i \in 1..Len(chunks) :
            chunks[i][1] * chunks[i][1] + chunks[i][3] * chunks[i][3]
                < ViewHorizontal * ViewHorizontal

\* C18: the returned list is in non-decreasing order of distance to the
\* center: of two consecutive results the first is no farther than the second.
C18_AscendingDistance ==
    pc = "listed" =>
        \A i \in 1..Len(chunks) - 1 :
            DistanceSquared(chunks[i], chunk_pos) <= DistanceSquared(chunks[i + 1], chunk_pos)

\* C18 witness: a returned list that is not the list as pushed, with results
\* at different distances.
C18_Witness ==
    /\ pc = "listed"
    /\ chunks # Pushed(view_radius, chunk_pos)
    /\ \E i \in 1..Len(chunks) - 1 :
            DistanceSquared(chunks[i], chunk_pos) < DistanceSquared(chunks[i + 1], chunk_pos)

\* C19: with radii 10 and 4 around (0,0,0), the first returned element is
\* (0,0,0).
C19_CenterFirst ==
    (/\ pc = "listed"
     /\ view_radius = [horizontal |-> ViewHorizontal, vertical |-> ViewVertical]
     /\ chunk_pos = <<0, 0, 0>>) =>
        /\ Len(chunks) > 0
        /\ chunks[1] = <<0, 0, 0>>

\* C19 witness: the list for radii 10 and 4 around (0,0,0), which starts with
\* the center and goes on to other positions.
C19_Witness ==
    /\ pc = "listed"
    /\ view_radius = [horizontal |-> ViewHorizontal, vertical |-> ViewVertical]
    /\ chunk_pos = <<0, 0, 0>>
    /\ chunks[1] = <<0, 0, 0>>
    /\ chunks[Len(chunks)] # <<0, 0, 0>>

\* C20: no returned coordinate has a negative y, whatever the center and the
\* radii.
C20_NoNegativeY ==
    pc = "listed" => \A i \in 1..Len(chunks) : chunks[i][2] >= 0

\* C20 witness: a list around a center below the floor, whose offsets would
\* all lead below it.
C20_Witness ==
    /\ pc = "listed"
    /\ chunk_pos[2] < 0
    /\ view_radius.vertical > 0
    /\ Len(chunks) > 0
    /\ \A offset \in IncludedOffsets(view_radius) :
            ChunkKeyUnclamped(chunk_pos, offset)[2] < 0

Air == BlockDataNew("vinox", "air")
Dirt == BlockDataNew("vinox", "dirt")
Stone == BlockDataNew("vinox", "stone")

\* the three calls of the scenario, made on ChunkData::default()
ScenarioCalls ==
    << Call("set", <<0, 0, 0, Dirt>>, <<>>),
       Call("set", <<15, 15, 15, Stone>>, <<>>),
       Call("set", <<0, 0, 0, Dirt>>, <<>>) >>

\* C21: after set(0,0,0,dirt), set(15,15,15,stone), set(0,0,0,dirt) on an
\* empty chunk, is_uniform() is false, get(0,0,0) is dirt, get(1,1,1) is air,
\* and the palette holds exactly air with ref_count 4094, dirt with ref_count
\* 1 and stone with ref_count 1.
C21_ThreeWritesScenario ==
    calls = ScenarioCalls =>
        /\ ~IsUniform(voxels)
        /\ ChunkGet(Chunk, 0, 0, 0) = Dirt
        /\ ChunkGet(Chunk, 1, 1, 1) = Air
        /\ Len(voxels.palette) = 3
        /\ {voxels.palette[k] : k \in 1..Len(voxels.palette)} =
                {PaletteEntry(Air, ChunkShapeUSIZE - 2), PaletteEntry(Dirt, 1),
                 PaletteEntry(Stone, 1)}

\* C21 witness: the chunk after the three calls of the scenario.
C21_Witness ==
    /\ calls = ScenarioCalls
    /\ voxels.kind = "Multi"
    /\ change_count = 3

\* the methods of the claim that take &self
ReadMethods == {"get", "get_identifier", "is_uniform", "is_dirty", "to_raw"}

\* C22: a call of get, get_identifier, is_uniform, is_dirty or to_raw leaves
\* the storage (variant, palette, ref_counts, bit buffer), the write counter
\* and the dirty flag as they were.
C22_ReadsArePure ==
    [][(Len(calls') = Len(calls) + 1 /\ calls'[Len(calls')].method \in ReadMethods)
            => (voxels' = voxels /\ change_count' = change_count /\ dirty' = dirty)]_vars

\* C22 witness: a paletted, dirty chunk with a write counted, on which each
\* of the reads was then called one after the other (MaxCalls allowing).
C22_Witness ==
    /\ voxels.kind = "Multi"
    /\ dirty
    /\ change_count = 1
    /\ Len(calls) = MaxCalls
    /\ calls[1].method = "set"
    /\ \A k \in 2..Len(calls) : calls[k].method \in ReadMethods
    /\ calls[2].method = "to_raw"
    /\ calls[2].returned = ToRaw(Chunk)

\* C23: linearize(x, y, z) is x + y*16 + z*256, an index of [0, 4096), and
\* delinearize takes it back to (x, y, z); delinearize(idx) is a coordinate of
\* [0, 16)^3 that linearize takes back to idx.  With every coordinate and
\* every index called, the two are bijections inverse to each other.
C23_LinearizationBijection ==
    \A k \in 1..Len(calls) :
        /\ calls[k].method = "linearize" =>
                /\ calls[k].returned =
                        calls[k].args[1] + calls[k].args[2] * 16 + calls[k].args[3] * 256
                /\ calls[k].returned \in 0..4095
                /\ Delinearize(calls[k].returned) = calls[k].args
        /\ calls[k].method = "delinearize" =>
                /\ \A axis \in 1..3 : calls[k].returned[axis] \in 0..15
                /\ Linearize(calls[k].returned[1], calls[k].returned[2], calls[k].returned[3])
                        = calls[k].args[1]

\* C23 witness: linearize(1, 2, 3) has returned 1 + 2*16 + 3*256.
C23_Witness ==
    /\ Len(calls) = 1
    /\ calls[1] = Call("linearize", <<1, 2, 3>>, 801)

\* C24: a set, at any index, of the value a uniform storage already holds
\* returns the storage as it was: the Single variant with the same value and
\* size, without palette or bit buffer; so does any number of such writes.
C24_UniformSameValueNoOp ==
    voxels.kind = "Single" =>
        \A i \in Slots(voxels) :
            LET after == StorageSet(voxels, i, voxels.voxel)
            IN  /\ after = [kind |-> "Single", size |-> voxels.size, voxel |-> voxels.voxel]
                /\ DOMAIN after = {"kind", "size", "voxel"}
                /\ \A j \in Slots(voxels) : StorageSet(after, j, voxels.voxel) = after

\* C24 witness: a storage of several voxels still uniform after MaxOps calls
\* of set, which therefore all wrote the value it holds.
C24_Witness ==
    /\ voxels.kind = "Single"
    /\ voxels.size > 1
    /\ ops = MaxOps

\* C25: promoting a uniform storage of n voxels holding u gives a paletted
\* storage with 2-bit indices, capacity 4, an all-zero buffer of 2n bits and
\* the palette [(u, n)]; for n > 1 the set of a v # u that promotes it ends
\* with the palette [(u, n - 1), (v, 1)], the written slot decoding to index
\* 1 and every other slot to index 0.
C25_PromotionShape ==
    voxels.kind = "Single" =>
        LET n == voxels.size
            u == voxels.voxel
            promoted == ToggleStorageType(voxels)
        IN  /\ promoted.kind = "Multi"
            /\ promoted.size = n
            /\ promoted.indices_length = 2
            /\ promoted.palette_capacity = 4
            /\ promoted.data = [len |-> 2 * n, ones |-> {}]
            /\ promoted.palette = <<PaletteEntry(u, n)>>
            /\ n > 1 =>
                \A i \in Slots(voxels), v \in BlockSet(GrowBlocks) \ {u} :
                    LET after == StorageSet(voxels, i, v)
                    IN  /\ after.kind = "Multi"
                        /\ after.indices_length = 2
                        /\ after.palette_capacity = 4
                        /\ after.data.len = 2 * n
                        /\ after.palette = <<PaletteEntry(u, n - 1), PaletteEntry(v, 1)>>
                        /\ \A j \in Slots(voxels) :
                                SlotIndex(after, j) = (IF j = i THEN 1 ELSE 0)

\* C25 witness: a storage of several voxels right after the one set that
\* promoted it.
C25_Witness ==
    /\ ops = 1
    /\ voxels.kind = "Multi"
    /\ voxels.size > 1
    /\ Len(voxels.palette) = 2
    /\ voxels.palette[1] = PaletteEntry(BlockDataDefault, voxels.size - 1)
    /\ voxels.palette[2].ref_count = 1
    /\ Cardinality({j \in Slots(voxels) : SlotIndex(voxels, j) = 1}) = 1

\* C26 (as claimed): when set has to append an entry to a palette at capacity
\* with no unreferenced entry, the palette capacity is doubled before the new
\* entry is appended with ref_count 1.
C26_CapacityDoubled ==
    (voxels.kind = "Multi" /\ Len(voxels.palette) = voxels.palette_capacity) =>
        \A i \in Slots(voxels), v \in BlockSet(GrowBlocks) :
            AppendsToFullPalette(voxels, i, v) =>
                LET after == StorageSet(voxels, i, v)
                IN  /\ after.palette_capacity = 2 * voxels.palette_capacity
                    /\ Len(after.palette) = Len(voxels.palette) + 1
                    /\ after.palette[Len(after.palette)] = PaletteEntry(v, 1)

\* C26 (amended): in that case the index width is doubled, which squares the
\* palette capacity (2^(2 * indices_length): 4 -> 16), before the new entry is
\* appended with ref_count 1; grow_palette applied on (to the grown storages
\* with as many entries as voxels) gives 16 -> 256.  The values tried are
\* those SpecGrow writes: values absent from the palette all behave alike.
C26_IndexWidthDoubled ==
    voxels.kind = "Multi" =>
        /\ (/\ Len(voxels.palette) = voxels.palette_capacity
            /\ \A k \in 1..Len(voxels.palette) : voxels.palette[k].ref_count >= 1) =>
            \A i \in Slots(voxels), v \in Writable(voxels, GrowBlocks) :
                AppendsToFullPalette(voxels, i, v) =>
                    LET after == StorageSet(voxels, i, v)
                    IN  /\ after.indices_length = 2 * voxels.indices_length
                        /\ after.palette_capacity = Pow2(2 * voxels.indices_length)
                        /\ after.palette_capacity
                                = voxels.palette_capacity * voxels.palette_capacity
                        /\ Len(after.palette) = Len(voxels.palette) + 1
                        /\ after.palette[Len(after.palette)] = PaletteEntry(v, 1)
        /\ (voxels.indices_length > InitialIndicesLength
                /\ Len(voxels.palette) = voxels.size) =>
                GrowPalette(voxels).palette_capacity
                    = voxels.palette_capacity * voxels.palette_capacity

\* C26 witness: the storage after the set of a fifth value on four live
\* entries: capacity 16, and the fifth entry appended with ref_count 1.
C26_Witness ==
    /\ voxels.kind = "Multi"
    /\ voxels.palette_capacity = 16
    /\ Len(voxels.palette) = 5
    /\ voxels.palette[5].ref_count = 1
    /\ \A k \in 1..4 : voxels.palette[k].ref_count >= 1

\* the slots of the coordinates SpecCalls uses
ScenarioSlots == {Linearize(c[1], c[2], c[3]) : c \in ScenarioCoords}

\* `after` is `storage` with the palette `palette` and slot target_idx
\* decoding to idx, every other slot as it was
Rewritten(storage, after, target_idx, idx, palette) ==
    /\ after.palette = palette
    /\ after.data = BitBufferSet(storage.data, target_idx * storage.indices_length,
                                 storage.indices_length, idx)
    /\ SlotIndex(after, target_idx) = idx
    /\ after.indices_length = storage.indices_length
    /\ after.palette_capacity = storage.palette_capacity

\* the (1-based) palette positions whose entry has ref_count 0, the 0-based
\* index of the first of them, and the positions whose entry holds v
Holes(palette) == {k \in 1..Len(palette) : palette[k].ref_count = 0}

FirstHole(palette) == (CHOOSE k \in Holes(palette) : \A j \in Holes(palette) : k <= j) - 1

Holding(palette, v) == {k \in 1..Len(palette) : palette[k].voxel_type = v}

\* C27 (as claimed): when a paletted set writes a value that no palette entry
\* holds and, once the old occupant is released, some entry has ref_count 0,
\* the value goes to the first entry with ref_count 0, which gets ref_count
\* 1, and the written slot decodes to that index.
C27_FirstHoleRecycled ==
    voxels.kind = "Multi" =>
        \A i \in ScenarioSlots, v \in BlockSet(4) :
            LET dec == DecrementTarget(voxels.palette, SlotIndex(voxels, i))
                hole == FirstHole(dec)
                after == StorageSet(voxels, i, v)
            IN  (Holding(dec, v) = {} /\ Holes(dec) # {}) =>
                    Rewritten(voxels, after, i, hole,
                              [dec EXCEPT ![hole + 1] = PaletteEntry(v, 1)])

\* C27 (amended): in that case the value goes to the entry of the slot's old
\* occupant if the release left that entry with ref_count 0, and otherwise to
\* the first entry with ref_count 0; the entry gets ref_count 1 and the
\* written slot decodes to its index.
C27_OwnEntryThenFirstHole ==
    voxels.kind = "Multi" =>
        \A i \in ScenarioSlots, v \in BlockSet(4) :
            LET target == SlotIndex(voxels, i)
                dec == DecrementTarget(voxels.palette, target)
                pick == IF dec[target + 1].ref_count = 0 THEN target ELSE FirstHole(dec)
                after == StorageSet(voxels, i, v)
            IN  (Holding(dec, v) = {} /\ Holes(dec) # {}) =>
                    Rewritten(voxels, after, i, pick,
                              [dec EXCEPT ![pick + 1] = PaletteEntry(v, 1)])

\* C27 witness: dirt was written at (0,0,0) and overwritten by air, which
\* left entry 1 unreferenced; stone written at (15,15,15), whose old occupant
\* air stays referenced, took over entry 1.
C27_Witness ==
    /\ calls = << Call("set", <<0, 0, 0, Dirt>>, <<>>),
                  Call("set", <<0, 0, 0, Air>>, <<>>),
                  Call("set", <<15, 15, 15, Stone>>, <<>>) >>
    /\ voxels.palette = <<PaletteEntry(Air, ChunkShapeUSIZE - 1), PaletteEntry(Stone, 1)>>
    /\ SlotIndex(voxels, Linearize(15, 15, 15)) = 1

\* C28 (as claimed): the value scan of a paletted set matches live entries
\* only.  When the entries holding v all have ref_count 0 once the old
\* occupant is released, v is placed as a new value is: in a recycled entry
\* (the old occupant's own if it was left unreferenced, or the first
\* unreferenced one) or, when no entry is unreferenced, in an appended one.
C28_OnlyLiveEntriesMatch ==
    voxels.kind = "Multi" =>
        \A i \in ScenarioSlots, v \in BlockSet(4) :
            LET target == SlotIndex(voxels, i)
                dec == DecrementTarget(voxels.palette, target)
                after == StorageSet(voxels, i, v)
            IN  (\A k \in Holding(dec, v) : dec[k].ref_count = 0) =>
                    SlotIndex(after, i) \in
                        (IF dec[target + 1].ref_count = 0 THEN {target} ELSE {}) \cup
                        (IF Holes(dec) # {} THEN {FirstHole(dec)} ELSE {Len(dec)})

\* C28 (amended): the value scan matches entries whatever their ref_count.
\* When some entry holds v once the old occupant is released, the set takes
\* the first such entry, also one with ref_count 0: its ref_count goes up by
\* one, the written slot decodes to its index, and no other entry changes.
C28_AnyEntryMatches ==
    voxels.kind = "Multi" =>
        \A i \in ScenarioSlots, v \in BlockSet(4) :
            LET dec == DecrementTarget(voxels.palette, SlotIndex(voxels, i))
                after == StorageSet(voxels, i, v)
            IN  Holding(dec, v) # {} =>
                    LET k == CHOOSE k \in Holding(dec, v) : \A j \in Holding(dec, v) : k <= j
                    IN  Rewritten(voxels, after, i, k - 1,
                                  [dec EXCEPT ![k].ref_count = @ + 1])

\* C28 witness: dirt at (0,0,0) and stone at (15,15,15), then air over the
\* dirt, which left entry 1 holding dirt unreferenced; dirt written over the
\* stone was matched to entry 1, and entry 2, released by the same set, stays
\* behind unreferenced.
C28_Witness ==
    /\ calls = << Call("set", <<0, 0, 0, Dirt>>, <<>>),
                  Call("set", <<15, 15, 15, Stone>>, <<>>),
                  Call("set", <<0, 0, 0, Air>>, <<>>),
                  Call("set", <<15, 15, 15, Dirt>>, <<>>) >>
    /\ voxels.palette = << PaletteEntry(Air, ChunkShapeUSIZE - 1), PaletteEntry(Dirt, 1),
                           PaletteEntry(Stone, 0) >>
    /\ SlotIndex(voxels, Linearize(15, 15, 15)) = 1

\* C29: in every reachable paletted state palette_capacity is
\* 2^indices_length, the palette has between 1 and palette_capacity entries
\* (so at most palette_capacity live ones), the bit buffer has exactly
\* size * indices_length bits, and every slot decodes to an index below the
\* length of the palette, so that Storage::get finds its entry.
C29_PalettedStructure ==
    voxels.kind = "Multi" =>
        /\ voxels.palette_capacity = 2 ^ voxels.indices_length
        /\ 1 <= Len(voxels.palette)
        /\ Len(voxels.palette) <= voxels.palette_capacity
        /\ Cardinality({k \in 1..Len(voxels.palette) : voxels.palette[k].ref_count > 0})
                <= voxels.palette_capacity
        /\ voxels.data.len = voxels.size * voxels.indices_length
        /\ \A p \in voxels.data.ones : 0 <= p /\ p < voxels.data.len
        /\ \A i \in Slots(voxels) : SlotIndex(voxels, i) < Len(voxels.palette)

\* C29 witness: a palette grown to capacity 16 whose five entries are all in
\* use, the fifth slot decoding to the highest index.
C29_Witness ==
    /\ voxels.kind = "Multi"
    /\ voxels.indices_length = 4
    /\ voxels.data.len = 20
    /\ \A k \in 1..Len(voxels.palette) : voxels.palette[k].ref_count > 0
    /\ \E i \in Slots(voxels) : SlotIndex(voxels, i) = 4

\* C30: Storage::set never turns a paletted storage into a uniform one, not
\* even when the write leaves one live value (trim is the only other
\* operation that changes the storage), and a set turns a uniform storage
\* into a paletted one only if its value differs from the uniform value.
C30_DemotionOnlyByTrim ==
    \A i \in Slots(voxels), v \in BlockSet(NumBlocks) :
        LET after == StorageSet(voxels, i, v)
        IN  /\ voxels.kind = "Multi" => after.kind = "Multi"
            /\ (voxels.kind = "Single" /\ after.kind = "Multi") => v # voxels.voxel
            /\ voxels.kind = "Single" => after.kind \in {"Single", "Multi"}

\* C30 witness: a storage of several voxels that sets have brought back to
\* one value everywhere, and that is still paletted, with one live entry.
C30_Witness ==
    /\ voxels.kind = "Multi"
    /\ voxels.size > 1
    /\ Cardinality(LiveEntries(voxels)) = 1
    /\ \A i \in Slots(voxels) : written[i] = StorageGet(voxels, 0)

\* C31: Storage::trim never changes what get returns at any index and never
\* fails: the assertion of toggle_storage_type holds whenever trim demotes,
\* and a uniform storage is left exactly as it was.
C31_TrimKeepsContents ==
    LET trimmed == StorageTrim(voxels)
    IN  /\ trimmed # AssertFailed
        /\ \A i \in Slots(voxels) : StorageGet(trimmed, i) = StorageGet(voxels, i)
        /\ voxels.kind = "Single" => trimmed = voxels

\* C31 witness: a paletted storage of one voxel holding a value other than
\* the default, which trim demotes.
C31_Witness ==
    /\ voxels.kind = "Multi"
    /\ StorageTrim(voxels).kind = "Single"
    /\ StorageGet(voxels, 0) # BlockDataDefault

\* C32 as claimed: the 500th ChunkData::set since the last reset, the one
\* made with 499 writes counted, resets change_count to 0.
C32_ResetOnFiveHundredthWrite ==
    [][(change_count' # change_count /\ change_count = TrimThreshold - 1)
            => change_count' = 0]_vars

\* C32 amended: a ChunkData::set resets change_count to 0 and trims the
\* storage it wrote exactly when 500 writes were already counted since the
\* last reset, that is on the 501st write; every other set counts one more.
C32_ResetOnWriteAfterFiveHundred ==
    [][change_count' # change_count =>
            IF change_count = TrimThreshold
            THEN /\ change_count' = 0
                 /\ \E c \in WrittenCoords, v \in BlockSet(ChunkBlocks) :
                        voxels' = StorageTrim(StorageSet(voxels, Linearize(c[1], c[2], c[3]), v))
            ELSE change_count' = change_count + 1]_vars

\* C32 witness: the counter back at 0 with every written coordinate holding
\* a value other than the default.
C32_Witness ==
    /\ change_count = 0
    /\ \A c \in WrittenCoords : written[Linearize(c[1], c[2], c[3])] # BlockDataDefault

\* C33: a set that finds and leaves the storage paletted removes and
\* reorders no palette entry.  The palette gets no shorter; an entry keeps
\* its value unless it had no reference left (it was a hole, or its last
\* reference was the written slot's) and this set wrote the new value into
\* it; an entry released to ref_count 0 stays where it was with its value;
\* and every slot but the written one decodes to the index it had.
C33_LazyReclamation ==
    [][(ops' = ops + 1 /\ voxels.kind = "Multi" /\ voxels'.kind = "Multi") =>
            /\ Len(voxels'.palette) >= Len(voxels.palette)
            /\ \A k \in 1..Len(voxels.palette) :
                    \/ voxels'.palette[k].voxel_type = voxels.palette[k].voxel_type
                    \/ /\ voxels.palette[k].ref_count <= 1
                       /\ voxels'.palette[k].ref_count = 1
            /\ \E t \in Slots(voxels) :
                    /\ \A i \in Slots(voxels) \ {t} :
                            SlotIndex(voxels', i) = SlotIndex(voxels, i)
                    /\ \A k \in 1..Len(voxels.palette) :
                            voxels'.palette[k].voxel_type # voxels.palette[k].voxel_type
                                => SlotIndex(voxels', t) = k - 1]_vars

\* C33 witness: a paletted storage holding a hole behind a live entry: the
\* second entry lost its last reference and is still in the palette.
C33_Witness ==
    /\ voxels.kind = "Multi"
    /\ Len(voxels.palette) >= 3
    /\ voxels.palette[2].ref_count = 0
    /\ voxels.palette[3].ref_count > 0

\* C34: the list get_chunk_positions returned holds no chunk coordinate
\* twice, whatever the center and the radii.
C34_NoDuplicatePositions ==
    pc = "listed" => Cardinality({chunks[k] : k \in 1..Len(chunks)}) = Len(chunks)

\* how often the call named f occurs in a sequence of calls
Occurrences(trace, f) == Cardinality({k \in 1..Len(trace) : trace[k] = f})

\* C35: every call of Storage::set comes to an end after entering set at
\* most twice: twice exactly when it found the storage uniform with another
\* value, where it toggles once and the second entry takes the paletted arm;
\* it calls grow_palette at most once, only on a paletted storage whose
\* palette is full, and the index width it leaves is then twice the one it
\* found; a set of a full palette that does not call it leaves the width as
\* it was.  (The calls of a set are one of <<set>>, <<set, grow_palette>>
\* and <<set, toggle_storage_type, set>>.)  get calls nothing and trim
\* toggles at most once.
C35_SetComesToAnEnd ==
    [](/\ \A i \in Slots(voxels), v \in Writable(voxels, GrowBlocks) :
            LET trace == SetCalls(voxels, i, v)
            IN  /\ IF voxels.kind = "Single" /\ voxels.voxel # v
                   THEN trace = <<"set", "toggle_storage_type", "set">>
                   ELSE trace \in {<<"set">>, <<"set", "grow_palette">>}
                /\ voxels.kind = "Multi" /\ Len(voxels.palette) = voxels.palette_capacity =>
                        StorageSet(voxels, i, v).indices_length =
                            (IF trace = <<"set">> THEN 1 ELSE 2) * voxels.indices_length
                /\ trace = <<"set", "grow_palette">> =>
                        voxels.kind = "Multi" /\ Len(voxels.palette) = voxels.palette_capacity
       /\ Occurrences(GetCalls(voxels, 0), "get") = 1 /\ Len(GetCalls(voxels, 0)) = 1
       /\ Occurrences(TrimCalls(voxels), "toggle_storage_type") <= 1
       /\ Occurrences(TrimCalls(voxels), "trim") = 1)

\* C35 witness: the storage a set that called grow_palette left, four sets
\* after a promotion: 4-bit indices, and no further set of it grows again.
C35_Witness ==
    /\ voxels.kind = "Multi"
    /\ voxels.indices_length = 2 * InitialIndicesLength
    /\ ops = 4
    /\ \A i \in Slots(voxels), v \in Writable(voxels, GrowBlocks) :
            Occurrences(SetCalls(voxels, i, v), "grow_palette") = 0

\* bit j (from 0, the least significant) of the number n
BitOf(n, j) == (n \div Pow2(j)) % 2

\* C36: a buffer made by new(total_bits) has exactly total_bits bits and
\* reads 0 on every range inside it; right after set(offset, len, value) with
\* value < 2^len, get(offset, len) is value, stored least significant bit
\* first; and whatever get(offset, len) returned is the number below 2^len
\* whose bit j is the buffer's bit offset + j.
C36_BitBufferRoundTrip ==
    LET last == calls[1]
    IN  /\ last.method = "new" =>
                /\ bytes.len = last.args[1]
                /\ \A p \in 0..(bytes.len - 1) : p \notin bytes.ones
                /\ \A r \in BitRanges(bytes) : BitBufferGet(bytes, r[1], r[2]) = 0
        /\ (last.method = "set" /\ last.args[3] < Pow2(last.args[2])) =>
                /\ BitBufferGet(bytes, last.args[1], last.args[2]) = last.args[3]
                /\ \A j \in 0..(last.args[2] - 1) :
                        (last.args[1] + j) \in bytes.ones <=> BitOf(last.args[3], j) = 1
        /\ last.method = "get" =>
                /\ last.returned \in 0..(Pow2(last.args[2]) - 1)
                /\ \A j \in 0..(last.args[2] - 1) :
                        (last.args[1] + j) \in bytes.ones <=> BitOf(last.returned, j) = 1

\* C36 witness: get(1, 3) returned 6 from a buffer of at least four bits
\* holding 0, 1, 1 at positions 1, 2, 3.
C36_Witness ==
    /\ calls = <<Call("get", <<1, 3>>, 6)>>
    /\ bytes.len >= 4
    /\ 1 \notin bytes.ones /\ 2 \in bytes.ones /\ 3 \in bytes.ones

\* C37: set(offset, len, value) changes no bit outside [offset, offset + len),
\* whatever the value (one too wide for the range included), leaves the
\* length of the buffer as it was, and so leaves every other slot of the
\* same width decoding to what it did.
C37_BitBufferFrame ==
    [][calls'[1].method = "set" =>
            LET idx == calls'[1].args[1]
                bit_length == calls'[1].args[2]
            IN  /\ bytes'.len = bytes.len
                /\ \A p \in bytes'.ones : p \in 0..(bytes.len - 1)
                /\ \A p \in 0..(bytes.len - 1) :
                        (p < idx \/ p >= idx + bit_length) =>
                            (p \in bytes'.ones <=> p \in bytes.ones)
                /\ \A k \in 0..(bytes.len \div bit_length - 1) :
                        (k * bit_length + bit_length <= idx \/ k * bit_length >= idx + bit_length) =>
                            BitBufferGet(bytes', k * bit_length, bit_length)
                                = BitBufferGet(bytes, k * bit_length, bit_length)]_vars

\* C37 witness: set(2, 2, 4), a value too wide for its range, made on a
\* buffer of six bits whose bits 0, 1, 4 and 5 were set and still are.
C37_Witness ==
    /\ calls = <<Call("set", <<2, 2, 4>>, <<>>)>>
    /\ bytes = [len |-> 6, ones |-> {0, 1, 4, 5}]

\* C38: Storage::set is idempotent on the whole storage: from every
\* storage reached in fewer than MaxOps sets, at every index and for every
\* value, a second set(i, v) leaves the variant, the palette with its
\* ref_counts, the index width and capacity and the bit buffer exactly as
\* the first left them.
C38_SetIdempotent ==
    [](ops < MaxOps =>
        \A i \in Slots(voxels), v \in Writable(voxels, GrowBlocks) :
            LET once == StorageSet(voxels, i, v)
            IN  StorageSet(once, i, v) = once)

\* C38 witness: the storage a set left that appended a fifth value to a full
\* palette; the same set made again finds the value and changes nothing.
C38_Witness ==
    /\ ops < MaxOps
    /\ voxels.kind = "Multi"
    /\ Len(voxels.palette) = 5
    /\ voxels.indices_length = 4
    /\ \E i \in Slots(voxels) :
            /\ SlotIndex(voxels, i) = 4
            /\ StorageSet(voxels, i, voxels.palette[5].voxel_type) = voxels

\* pos is within the view radius around the player's chunk, as claimed:
\* dx^2 + dz^2 <= (horizontal * 16)^2 and dy^2 <= (vertical * 16)^2
WithinViewRadius(center, pos, view_radius_) ==
    /\ (pos[1] - center[1]) * (pos[1] - center[1]) + (pos[3] - center[3]) * (pos[3] - center[3])
            <= (view_radius_.horizontal * 16) * (view_radius_.horizontal * 16)
    /\ (pos[2] - center[2]) * (pos[2] - center[2])
            <= (view_radius_.vertical * 16) * (view_radius_.vertical * 16)

\* C39: with a horizontal radius of at least 1, clear_unloaded_chunks tags
\* RemoveChunk on no chunk entity whose position is within the view radius
\* around PlayerChunk.chunk_pos (is_in_radius being true of every such
\* position): no step takes such an entity from untagged to tagged.
C39_NoEvictionWithinRadius ==
    [][view_radius.horizontal >= 1 =>
            \A e \in chunk_entities :
                (~e.remove /\ WithinViewRadius(player_chunk, e.pos, view_radius)) =>
                    ChunkEntity(e.pos, TRUE) \notin chunk_entities']_vars

=============================================================================
